---- MODULE Spec2Model ----
(***************************************************************************)
(* restorecon_xattr: report and optionally delete the "security.sehash"    *)
(* digest attribute of the directories under a pathname.                   *)
(*                                                                         *)
(* The model follows main() of policycoreutils/setfiles/restorecon_xattr.c *)
(* statement by statement.  The calls it makes into libselinux             *)
(* (selinux_restorecon_xattr, selabel_digest, the exclude list) and into   *)
(* restore.c (add_exclude) are modelled from the specification's           *)
(* component contracts (TreeWalker, Reconciler, XattrStore, ExclusionSet,  *)
(* SpecDigest).                                                            *)
(***************************************************************************)
EXTENDS Integers, Sequences, FiniteSets, TLC

\* ---------------------------------------------------------------- bounds

\* At most this many options on one command line.
MaxOpts == 2

\* At most this many invocations on the same tree (SpecRerun).
MaxRuns == 2

\* ------------------------------------------------------- the environment

\* Paths are character sequences, so that "/s/m" is a string prefix of
\* "/s/m2" without being one of its ancestors.
SRV == <<"/", "s">>
MNT == <<"/", "s", "/", "m">>
MNTX == <<"/", "s", "/", "m", "/", "x">>
MNT2 == <<"/", "s", "/", "m", "2">>

\* A path lstat() cannot search (EACCES) and one that does not exist.
NOACC == <<"/", "p">>
GONE == <<"/", "q">>

\* The directories of the tree, in the walk's (depth-first, pre-order) order.
DirOrder == <<SRV, MNT, MNTX, MNT2>>

Dirs == {DirOrder[i] : i \in 1..Len(DirOrder)}

\* The tree itself: each directory's parent (the top one is its own).
Parent(d) == IF d = MNTX THEN MNT ELSE SRV

\* d is a or lies beneath a, by the tree.
InSubtree(d, a) == d = a \/ Parent(d) = a \/ Parent(Parent(d)) = a

\* The pathnames a command line may name as the place to search.
Pathnames == {SRV, MNT}

\* The directories -e may name.
ExcludeArgs == {MNT, NOACC, GONE}

\* What lstat() answers for a path.
StatOf(p) == IF p = NOACC THEN "EACCES" ELSE IF p = GONE THEN "ENOENT" ELSE "ok"

\* The mount tables the run may find: nothing mounted below the tree, or a
\* filesystem mounted on /s/m2.
MountTables == {{}, {MNT2}}

\* The specfile -f may name.
AltSpecfile == <<"a", "l", "t">>

\* The specfiles of the default set, in their order.
DefaultSpecfiles == << <<"f", "c">>, <<"f", "c", ".", "l">> >>

\* An option taken is Some(x) = <<x>>, an option not taken None = <<>>.
None == <<>>
Some(x) == <<x>>

\* ------------------------------------------------ digests and their text

\* The digest of the default specfile set and of the -f one; the second
\* byte of the first has a leading zero nibble.
DefaultDigest == <<171, 9>>
AltDigest == <<16, 255>>

HexDigits == <<"0", "1", "2", "3", "4", "5", "6", "7",
               "8", "9", "a", "b", "c", "d", "e", "f">>

\* sprintf("%02x", fc_digest[i]): two lowercase hex digits.
Hex02x(b) == <<HexDigits[(b \div 16) + 1], HexDigits[(b % 16) + 1]>>

\* for (i = 0; i < fc_digest_len; i++) sprintf(&sha1_buf[i * 2], "%02x", ...)
RECURSIVE Sha1Buf(_)
Sha1Buf(fc_digest) ==
    IF fc_digest = <<>> THEN <<>>
    ELSE Hex02x(Head(fc_digest)) \o Sha1Buf(Tail(fc_digest))

\* SpecDigest: the digest and the ordered specfile list of a specfile set.
SpecDigest(fc) ==
    IF fc = None
    THEN [digest |-> DefaultDigest, specfiles |-> DefaultSpecfiles]
    ELSE [digest |-> AltDigest, specfiles |-> <<fc[1]>>]

\* Digest: the canonical lowercase hexadecimal text, 2 x length characters.
RECURSIVE DigestHex(_)
DigestHex(bytes) ==
    IF bytes = <<>> THEN <<>>
    ELSE <<HexDigits[(Head(bytes) \div 16) + 1],
           HexDigits[(Head(bytes) % 16) + 1]>> \o DigestHex(Tail(bytes))

\* What a directory's digest attribute may hold: nothing, or the text of one
\* of the two digests.
AttrVals == {None, Some(DigestHex(DefaultDigest)), Some(DigestHex(AltDigest))}

\* --------------------------------------------------------------- state

VARIABLES
    pc,                 \* where main() is
    status,             \* the process's exit status: running, success, failure
    optind,             \* getopt's index of the next argument
    opt,                \* getopt's last answer
    optarg,             \* getopt's last option argument
    display_digest,
    no_comment,
    recurse,
    ignore_mounts,
    delete_digest,
    delete_all_digests,
    fc_file,
    exclude_list,       \* restore.c's global exclude list
    pathname,           \* argv[optind] after the options
    hnd,                \* the selabel handle
    lib_exclude,        \* the exclude list libselinux was handed
    xattr_flags,
    todo,               \* the walk: the directories still to come
    xattr_list,         \* the dir_xattr list the call returns
    current,            \* the print loop's position in xattr_list
    stdout,
    stderr,
    xattr,              \* the tree's digest attributes
    mounts,             \* the mount table
    xattr0,             \* the attributes as the run found them
    visited,            \* the directories the walk yielded
    removals,           \* the removals attempted: directory -> succeeded
    runs,               \* invocations so far
    prev_deleted        \* the directories the invocation before this one reported deleted

procvars == <<pc, status, optind, opt, optarg, display_digest, no_comment,
              recurse, ignore_mounts, delete_digest, delete_all_digests,
              fc_file, exclude_list, pathname, hnd, lib_exclude, xattr_flags,
              todo, xattr_list, current, stdout, stderr>>

envvars == <<xattr, mounts, xattr0, visited, removals, runs, prev_deleted>>

vars == <<procvars, envvars>>

\* ------------------------------------------------------------ messages

\* What a line of stderr says, and about which path.
Msg(m, p) == [msg |-> m, path |-> p]

UsageText == "usage: [-vnrmdD] [-e directory] [-f specfile] pathname"

\* One line of stdout: which printf wrote it and what it was given.
Line(k, dir, lbl, dig, cmt) ==
    [kind |-> k, directory |-> dir, label |-> lbl, digest |-> dig, comment |-> cmt]

\* ----------------------------------------------------------------- Init

\* The process as main() finds it.
ProcInit ==
    /\ pc = "start"
    /\ status = "running"
    /\ optind = 1
    /\ opt = "none"
    /\ optarg = None
    /\ display_digest = FALSE
    /\ no_comment = TRUE
    /\ recurse = {}
    /\ ignore_mounts = {}
    /\ delete_digest = {}
    /\ delete_all_digests = {}
    /\ fc_file = None
    /\ exclude_list = <<>>
    /\ pathname = None
    /\ hnd = None
    /\ lib_exclude = <<>>
    /\ xattr_flags = {}
    /\ todo = <<>>
    /\ xattr_list = <<>>
    /\ current = 0
    /\ stdout = <<>>
    /\ stderr = <<>>

Init ==
    /\ ProcInit
    /\ xattr \in [Dirs -> AttrVals]
    /\ mounts \in MountTables
    /\ xattr0 = xattr
    /\ visited = {}
    /\ removals = [d \in Dirs |-> "none"]
    /\ runs = 1
    /\ prev_deleted = {}

\* ------------------------------------------------------- exits of main

\* exit(-1) with m on stderr.  handle is what becomes of hnd.
Die(m, handle) ==
    /\ stderr' = Append(stderr, m)
    /\ status' = "failure"
    /\ pc' = "exit"
    /\ hnd' = handle

\* if (argc < 2) usage(argv[0]);
NoArguments ==
    /\ pc = "start"
    /\ Die(Msg(UsageText, None), hnd)
    /\ UNCHANGED <<optind, opt, optarg, display_digest, no_comment, recurse,
                   ignore_mounts, delete_digest, delete_all_digests, fc_file,
                   exclude_list, pathname, lib_exclude, xattr_flags, todo,
                   xattr_list, current, stdout, envvars>>

\* if (is_selinux_enabled() <= 0) { ...; exit(-1); }
SelinuxDisabled ==
    /\ pc = "start"
    /\ Die(Msg("SELinux must be enabled to perform this operation.", None), hnd)
    /\ UNCHANGED <<optind, opt, optarg, display_digest, no_comment, recurse,
                   ignore_mounts, delete_digest, delete_all_digests, fc_file,
                   exclude_list, pathname, lib_exclude, xattr_flags, todo,
                   xattr_list, current, stdout, envvars>>

\* SELinux is enabled: exclude_list = NULL and on to the options.
SelinuxEnabled ==
    /\ pc = "start"
    /\ pc' = "getopt"
    /\ exclude_list' = <<>>
    /\ UNCHANGED <<status, optind, opt, optarg, display_digest, no_comment,
                   recurse, ignore_mounts, delete_digest, delete_all_digests,
                   fc_file, pathname, hnd, lib_exclude, xattr_flags, todo,
                   xattr_list, current, stdout, stderr, envvars>>

\* --------------------------------------------------------- the options

\* getopt() answers with option o and argument a.
Getopt(o, a) ==
    /\ pc = "getopt"
    /\ optind <= MaxOpts
    /\ opt' = o
    /\ optarg' = a
    /\ optind' = optind + 1

\* case 'v': display_digest = true;
OptV ==
    /\ Getopt("v", optarg)
    /\ display_digest' = TRUE
    /\ UNCHANGED <<pc, status, no_comment, recurse, ignore_mounts, delete_digest,
                   delete_all_digests, fc_file, exclude_list, pathname, hnd,
                   lib_exclude, xattr_flags, todo, xattr_list, current, stdout,
                   stderr, envvars>>

\* case 'n': no_comment = false;
OptN ==
    /\ Getopt("n", optarg)
    /\ no_comment' = FALSE
    /\ UNCHANGED <<pc, status, display_digest, recurse, ignore_mounts,
                   delete_digest, delete_all_digests, fc_file, exclude_list,
                   pathname, hnd, lib_exclude, xattr_flags, todo, xattr_list,
                   current, stdout, stderr, envvars>>

\* case 'r': recurse = SELINUX_RESTORECON_XATTR_RECURSE;
OptR ==
    /\ Getopt("r", optarg)
    /\ recurse' = {"RECURSE"}
    /\ UNCHANGED <<pc, status, display_digest, no_comment, ignore_mounts,
                   delete_digest, delete_all_digests, fc_file, exclude_list,
                   pathname, hnd, lib_exclude, xattr_flags, todo, xattr_list,
                   current, stdout, stderr, envvars>>

\* case 'm': ignore_mounts = SELINUX_RESTORECON_XATTR_IGNORE_MOUNTS;
OptM ==
    /\ Getopt("m", optarg)
    /\ ignore_mounts' = {"IGNORE_MOUNTS"}
    /\ UNCHANGED <<pc, status, display_digest, no_comment, recurse,
                   delete_digest, delete_all_digests, fc_file, exclude_list,
                   pathname, hnd, lib_exclude, xattr_flags, todo, xattr_list,
                   current, stdout, stderr, envvars>>

\* case 'd': delete_digest = SELINUX_RESTORECON_XATTR_DELETE_NONMATCH_DIGESTS;
OptD ==
    /\ Getopt("d", optarg)
    /\ delete_digest' = {"DELETE_NONMATCH_DIGESTS"}
    /\ UNCHANGED <<pc, status, display_digest, no_comment, recurse,
                   ignore_mounts, delete_all_digests, fc_file, exclude_list,
                   pathname, hnd, lib_exclude, xattr_flags, todo, xattr_list,
                   current, stdout, stderr, envvars>>

\* case 'D': delete_all_digests = SELINUX_RESTORECON_XATTR_DELETE_ALL_DIGESTS;
OptDeleteAll ==
    /\ Getopt("D", optarg)
    /\ delete_all_digests' = {"DELETE_ALL_DIGESTS"}
    /\ UNCHANGED <<pc, status, display_digest, no_comment, recurse,
                   ignore_mounts, delete_digest, fc_file, exclude_list,
                   pathname, hnd, lib_exclude, xattr_flags, todo, xattr_list,
                   current, stdout, stderr, envvars>>

\* add_exclude(directory): one more entry at the end of the list.
add_exclude(list, directory) == Append(list, directory)

\* The test with the errno comparison left out.
CantStatAnyErrno(p) == StatOf(p) # "ok"

\* lstat(optarg, &sb) < 0 && errno != EACCES
CantStat(p) == StatOf(p) # "ok" /\ StatOf(p) # "EACCES"

\* case 'e', as a function of the path: what becomes of the list and stderr.
ExcludeCase(p, list, err) ==
    IF CantStat(p)
    THEN [list |-> list, err |-> Append(err, Msg("Can't stat exclude path - ignoring.", Some(p)))]
    ELSE [list |-> add_exclude(list, p), err |-> err]

\* case 'e': the path is added unless it cannot be stat'ed.
OptE ==
    \E p \in ExcludeArgs :
        /\ Getopt("e", Some(p))
        /\ exclude_list' = ExcludeCase(p, exclude_list, stderr).list
        /\ stderr' = ExcludeCase(p, exclude_list, stderr).err
        /\ UNCHANGED <<pc, status, display_digest, no_comment, recurse,
                       ignore_mounts, delete_digest, delete_all_digests,
                       fc_file, pathname, hnd, lib_exclude, xattr_flags, todo,
                       xattr_list, current, stdout, envvars>>

\* case 'f': fc_file = optarg;
OptF ==
    /\ Getopt("f", Some(AltSpecfile))
    /\ fc_file' = Some(AltSpecfile)
    /\ UNCHANGED <<pc, status, display_digest, no_comment, recurse,
                   ignore_mounts, delete_digest, delete_all_digests,
                   exclude_list, pathname, hnd, lib_exclude, xattr_flags, todo,
                   xattr_list, current, stdout, stderr, envvars>>

\* default: usage(argv[0]);
OptUnknown ==
    /\ Getopt("?", optarg)
    /\ Die(Msg(UsageText, None), hnd)
    /\ UNCHANGED <<display_digest, no_comment, recurse, ignore_mounts,
                   delete_digest, delete_all_digests, fc_file, exclude_list,
                   pathname, lib_exclude, xattr_flags, todo, xattr_list,
                   current, stdout, envvars>>

\* getopt() answers -1 and no argument is left: "No pathname specified".
\* (argc >= 2, so at least one option was read.)
NoPathname ==
    /\ pc = "getopt"
    /\ optind > 1
    /\ opt' = "EOF"
    /\ Die(Msg("No pathname specified", None), hnd)
    /\ UNCHANGED <<optind, optarg, display_digest, no_comment, recurse,
                   ignore_mounts, delete_digest, delete_all_digests, fc_file,
                   exclude_list, pathname, lib_exclude, xattr_flags, todo,
                   xattr_list, current, stdout, envvars>>

\* getopt() answers -1 and argv[optind] is the pathname.
GetoptEnd ==
    \E p \in Pathnames :
        /\ pc = "getopt"
        /\ opt' = "EOF"
        /\ pathname' = Some(p)
        /\ pc' = "open"
        /\ UNCHANGED <<status, optind, optarg, display_digest, no_comment,
                       recurse, ignore_mounts, delete_digest,
                       delete_all_digests, fc_file, exclude_list, hnd,
                       lib_exclude, xattr_flags, todo, xattr_list, current,
                       stdout, stderr, envvars>>

\* ------------------------------------------------- the selabel handle

\* hnd = selabel_open(...); if (!hnd) { ...; exit(-1); }
SelabelOpenFail ==
    \E m \in {"Error: Number of specfiles or specfile buffer caused an overflow.",
              "Error: selabel_open"} :
        /\ pc = "open"
        /\ Die(Msg(m, None), None)
        /\ UNCHANGED <<optind, opt, optarg, display_digest, no_comment, recurse,
                       ignore_mounts, delete_digest, delete_all_digests,
                       fc_file, exclude_list, pathname, lib_exclude,
                       xattr_flags, todo, xattr_list, current, stdout, envvars>>

\* hnd = selabel_open(SELABEL_CTX_FILE, selinux_opts, 2), with the digest asked
\* for; selinux_restorecon_set_sehandle(hnd).
SelabelOpen ==
    /\ pc = "open"
    /\ hnd' = Some(SpecDigest(fc_file))
    /\ pc' = "display"
    /\ UNCHANGED <<status, optind, opt, optarg, display_digest, no_comment,
                   recurse, ignore_mounts, delete_digest, delete_all_digests,
                   fc_file, exclude_list, pathname, lib_exclude, xattr_flags,
                   todo, xattr_list, current, stdout, stderr, envvars>>

\* ------------------------------------------------------ display_digest

\* The lines "specfiles SHA1 digest: %s", "calculated using the following
\* specfile(s):", one "%s" per specfile, and the empty line.
DigestHeader(fc_digest, specfiles) ==
    <<Line("sha1", None, "specfiles SHA1 digest: ", Sha1Buf(fc_digest), "\n"),
      Line("calc", None, "calculated using the following specfile(s):", <<>>, "\n")>>
    \o [i \in 1..Len(specfiles) |-> Line("specfile", Some(specfiles[i]), "", <<>>, "\n")]
    \o <<Line("blank", None, "", <<>>, "\n")>>

\* selabel_digest(...) < 0: "Digest not available", selabel_close, exit(-1).
DigestUnavailable ==
    /\ pc = "display"
    /\ display_digest
    /\ Die(Msg("Error: selabel_digest: Digest not available.", None), None)
    /\ UNCHANGED <<optind, opt, optarg, display_digest, no_comment, recurse,
                   ignore_mounts, delete_digest, delete_all_digests, fc_file,
                   exclude_list, pathname, lib_exclude, xattr_flags, todo,
                   xattr_list, current, stdout, envvars>>

\* sha1_buf = malloc(...) fails: selabel_close, exit(-1).
AllocFail ==
    /\ pc = "display"
    /\ display_digest
    /\ Die(Msg("Error allocating digest buffer", None), None)
    /\ UNCHANGED <<optind, opt, optarg, display_digest, no_comment, recurse,
                   ignore_mounts, delete_digest, delete_all_digests, fc_file,
                   exclude_list, pathname, lib_exclude, xattr_flags, todo,
                   xattr_list, current, stdout, envvars>>

\* if (display_digest) { ... the header is printed ... }
DisplayDigest ==
    /\ pc = "display"
    /\ display_digest
    /\ stdout' = stdout \o DigestHeader(hnd[1].digest, hnd[1].specfiles)
    /\ pc' = "exclude"
    /\ UNCHANGED <<status, optind, opt, optarg, display_digest, no_comment,
                   recurse, ignore_mounts, delete_digest, delete_all_digests,
                   fc_file, exclude_list, pathname, hnd, lib_exclude,
                   xattr_flags, todo, xattr_list, current, stderr, envvars>>

\* display_digest is false: nothing is printed.
NoDisplayDigest ==
    /\ pc = "display"
    /\ ~display_digest
    /\ pc' = "exclude"
    /\ UNCHANGED <<status, optind, opt, optarg, display_digest, no_comment,
                   recurse, ignore_mounts, delete_digest, delete_all_digests,
                   fc_file, exclude_list, pathname, hnd, lib_exclude,
                   xattr_flags, todo, xattr_list, current, stdout, stderr,
                   envvars>>

\* ------------------------------------------------- the call into the walk

\* The list libselinux holds with the exclude list never handed over.
ExcludeListNotSet(list, held) == held

\* if (exclude_list) selinux_restorecon_set_exclude_list(exclude_list);
ExcludeListSet(list, held) == IF list # <<>> THEN list ELSE held

SetExcludeList ==
    /\ pc = "exclude"
    /\ lib_exclude' = ExcludeListSet(exclude_list, lib_exclude)
    /\ pc' = "xattr"
    /\ UNCHANGED <<status, optind, opt, optarg, display_digest, no_comment,
                   recurse, ignore_mounts, delete_digest, delete_all_digests,
                   fc_file, exclude_list, pathname, hnd, xattr_flags, todo,
                   xattr_list, current, stdout, stderr, envvars>>

\* The flags with the delete-all bit left out of the union.
XattrFlagsNoDeleteAll(dd, da, im, rec) == dd \cup im \cup rec

\* The flags with the delete-all bit always in.
XattrFlagsDeleteAll(dd, da, im, rec) == dd \cup {"DELETE_ALL_DIGESTS"} \cup im \cup rec

\* The flags with the recurse bit always in.
XattrFlagsRecurse(dd, da, im, rec) == dd \cup da \cup im \cup {"RECURSE"}

\* xattr_flags = delete_digest | delete_all_digests | ignore_mounts | recurse;
XattrFlags(dd, da, im, rec) == dd \cup da \cup im \cup rec

\* e is path or an ancestor of path: a prefix of it that ends where one of
\* path's components ends.
IsPathPrefix(e, path) ==
    /\ Len(e) <= Len(path)
    /\ SubSeq(path, 1, Len(e)) = e
    /\ (Len(e) = Len(path) \/ path[Len(e) + 1] = "/")

\* ExclusionSet.build: the explicit paths and, unless suppressed, the mounts.
ExclusionSet(explicit, mnt, flags) ==
    {explicit[i] : i \in 1..Len(explicit)}
        \cup (IF "IGNORE_MOUNTS" \in flags THEN {} ELSE mnt)

\* ExclusionSet.contains
Contains(excl, path) == \E e \in excl : IsPathPrefix(e, path)

\* TreeWalker.walk: the root alone, or every directory under the root that
\* is not excluded, in the tree's order.
Walk(root, flags, excl) ==
    IF "RECURSE" \notin flags THEN <<root>>
    ELSE SelectSeq(DirOrder, LAMBDA d : InSubtree(d, root) /\ ~Contains(excl, d))

\* selinux_restorecon_xattr() fails: rc = -1; goto out.
RestoreconXattrFail ==
    /\ pc = "xattr"
    /\ xattr_flags' = XattrFlags(delete_digest, delete_all_digests,
                                 ignore_mounts, recurse)
    /\ Die(Msg("Error selinux_restorecon_xattr", None), None)
    /\ UNCHANGED <<optind, opt, optarg, display_digest, no_comment, recurse,
                   ignore_mounts, delete_digest, delete_all_digests, fc_file,
                   exclude_list, pathname, lib_exclude, todo, xattr_list,
                   current, stdout, envvars>>

\* selinux_restorecon_xattr(argv[optind], xattr_flags, &xattr_list) starts
\* its walk.
RestoreconXattr ==
    /\ pc = "xattr"
    /\ xattr_flags' = XattrFlags(delete_digest, delete_all_digests,
                                 ignore_mounts, recurse)
    /\ todo' = Walk(pathname[1], xattr_flags',
                    ExclusionSet(lib_exclude, mounts, xattr_flags'))
    /\ pc' = "walk"
    /\ UNCHANGED <<status, optind, opt, optarg, display_digest, no_comment,
                   recurse, ignore_mounts, delete_digest, delete_all_digests,
                   fc_file, exclude_list, pathname, hnd, lib_exclude,
                   xattr_list, current, stdout, stderr, envvars>>

\* ------------------------------------------- the walk, one directory a step

\* XattrStore.read with an absent attribute answered as an empty digest.
ReadAbsentAsEmpty(store, d) == IF store[d] = None THEN Some(<<>>) ELSE store[d]

\* XattrStore.read: the stored digest text, or None when there is none.
Read(store, d) == store[d]

\* XattrStore.delete: the attribute is gone.
Delete(store, d) == [store EXCEPT ![d] = None]

\* Reconciler, step 3: the base outcome.
BaseOutcome(stored, current_hex) ==
    IF stored = current_hex THEN "MATCH" ELSE "NOMATCH"

\* Reconciler, step 4: delete-all first, then delete-non-matching.
DeleteWanted(base, flags) ==
    \/ "DELETE_ALL_DIGESTS" \in flags
    \/ ("DELETE_NONMATCH_DIGESTS" \in flags /\ base = "NOMATCH")

\* Reconciler, step 5: the outcome once the removal, if any, is over.
Outcome(base, attempted, removed) ==
    IF ~attempted THEN base
    ELSE IF ~removed THEN "ERROR"
    ELSE IF base = "MATCH" THEN "DELETED_MATCH" ELSE "DELETED_NOMATCH"

\* struct dir_xattr
DirXattr(dir, dig, res) == [directory |-> dir, digest |-> dig, result |-> res]

\* The directory cannot be opened, or its attribute cannot be read: it is
\* skipped and the walk goes on.
WalkUnreadable ==
    /\ pc = "walk"
    /\ todo # <<>>
    /\ todo' = Tail(todo)
    /\ visited' = visited \cup {Head(todo)}
    /\ UNCHANGED <<pc, status, optind, opt, optarg, display_digest, no_comment,
                   recurse, ignore_mounts, delete_digest, delete_all_digests,
                   fc_file, exclude_list, pathname, hnd, lib_exclude,
                   xattr_flags, xattr_list, current, stdout, stderr, xattr,
                   mounts, xattr0, removals, runs, prev_deleted>>

\* Reconciler, step 1: no stored digest, the directory is skipped silently.
WalkNoDigest ==
    /\ pc = "walk"
    /\ todo # <<>>
    /\ Read(xattr, Head(todo)) = None
    /\ todo' = Tail(todo)
    /\ visited' = visited \cup {Head(todo)}
    /\ UNCHANGED <<pc, status, optind, opt, optarg, display_digest, no_comment,
                   recurse, ignore_mounts, delete_digest, delete_all_digests,
                   fc_file, exclude_list, pathname, hnd, lib_exclude,
                   xattr_flags, xattr_list, current, stdout, stderr, xattr,
                   mounts, xattr0, removals, runs, prev_deleted>>

\* Reconciler, steps 2 to 6, the removal succeeding or failing.
WalkReconcile ==
    \E removed \in BOOLEAN :
        /\ pc = "walk"
        /\ todo # <<>>
        /\ Read(xattr, Head(todo)) # None
        /\ LET d == Head(todo)
               stored == Read(xattr, d)[1]
               base == BaseOutcome(stored, DigestHex(hnd[1].digest))
               attempted == DeleteWanted(base, xattr_flags)
           IN  /\ xattr' = IF attempted /\ removed THEN Delete(xattr, d) ELSE xattr
               /\ removals' = IF attempted
                              THEN [removals EXCEPT ![d] = IF removed THEN "ok" ELSE "failed"]
                              ELSE removals
               /\ xattr_list' = Append(xattr_list,
                                       DirXattr(d, stored, Outcome(base, attempted, removed)))
               /\ visited' = visited \cup {d}
        /\ todo' = Tail(todo)
        /\ UNCHANGED <<pc, status, optind, opt, optarg, display_digest, no_comment,
                       recurse, ignore_mounts, delete_digest,
                       delete_all_digests, fc_file, exclude_list, pathname, hnd,
                       lib_exclude, xattr_flags, current, stdout, stderr,
                       mounts, xattr0, runs, prev_deleted>>

\* The walk is over and the call returns 0: current = *xattr_list.
WalkEnd ==
    /\ pc = "walk"
    /\ todo = <<>>
    /\ current' = IF xattr_list = <<>> THEN 0 ELSE 1
    /\ pc' = "print"
    /\ UNCHANGED <<status, optind, opt, optarg, display_digest, no_comment,
                   recurse, ignore_mounts, delete_digest, delete_all_digests,
                   fc_file, exclude_list, pathname, hnd, lib_exclude,
                   xattr_flags, todo, xattr_list, stdout, stderr, envvars>>

\* ------------------------------------------------------------ the report

\* The switch with the ERROR case under the "Deleted Digest:" label.
RenderErrorAsDeleted(rec, comments) ==
    LET del == rec.result \in {"DELETED_MATCH", "DELETED_NOMATCH", "ERROR"}
        cmt == IF rec.result = "ERROR" THEN " Error removing xattr\n"
               ELSE IF ~comments THEN "\n"
               ELSE IF rec.result \in {"MATCH", "DELETED_MATCH"} THEN " Match\n"
               ELSE " No Match\n"
    IN  Line("dir", Some(rec.directory),
             IF del THEN "Deleted Digest: " ELSE "Digest: ", rec.digest, cmt)

\* The switch with the sense of no_comment turned round.
RenderInverted(rec, comments) ==
    LET del == rec.result \in {"DELETED_MATCH", "DELETED_NOMATCH"}
        cmt == IF rec.result = "ERROR" THEN " Error removing xattr\n"
               ELSE IF comments THEN "\n"
               ELSE IF rec.result \in {"MATCH", "DELETED_MATCH"} THEN " Match\n"
               ELSE " No Match\n"
    IN  Line("dir", Some(rec.directory),
             IF del THEN "Deleted Digest: " ELSE "Digest: ", rec.digest, cmt)

\* printf("%s ", current->directory); switch (current->result) { ... }
Render(rec, comments) ==
    CASE rec.result = "MATCH" ->
            Line("dir", Some(rec.directory), "Digest: ", rec.digest,
                 IF comments THEN " Match\n" ELSE "\n")
      [] rec.result = "NOMATCH" ->
            Line("dir", Some(rec.directory), "Digest: ", rec.digest,
                 IF comments THEN " No Match\n" ELSE "\n")
      [] rec.result = "DELETED_MATCH" ->
            Line("dir", Some(rec.directory), "Deleted Digest: ", rec.digest,
                 IF comments THEN " Match\n" ELSE "\n")
      [] rec.result = "DELETED_NOMATCH" ->
            Line("dir", Some(rec.directory), "Deleted Digest: ", rec.digest,
                 IF comments THEN " No Match\n" ELSE "\n")
      [] rec.result = "ERROR" ->
            Line("dir", Some(rec.directory), "Digest: ", rec.digest,
                 " Error removing xattr\n")

\* while (current) { next = current->next; ...; current = next; }
PrintRecord ==
    /\ pc = "print"
    /\ current # 0
    /\ stdout' = Append(stdout, Render(xattr_list[current], no_comment))
    /\ current' = IF current < Len(xattr_list) THEN current + 1 ELSE 0
    /\ UNCHANGED <<pc, status, optind, opt, optarg, display_digest, no_comment,
                   recurse, ignore_mounts, delete_digest, delete_all_digests,
                   fc_file, exclude_list, pathname, hnd, lib_exclude,
                   xattr_flags, todo, xattr_list, stderr, envvars>>

\* The exit status, had it followed the ERROR records of the list.
ReturnErrors(list) ==
    IF \E i \in 1..Len(list) : list[i].result = "ERROR" THEN "failure" ELSE "success"

\* rc = 0; ... return rc;  whatever the list holds.
ReturnStatus(list) == "success"

\* The list is freed; rc = 0; out: selabel_close(hnd); return rc;
PrintDone ==
    /\ pc = "print"
    /\ current = 0
    /\ xattr_list' = <<>>
    /\ hnd' = None
    /\ status' = ReturnStatus(xattr_list)
    /\ pc' = "exit"
    /\ UNCHANGED <<optind, opt, optarg, display_digest, no_comment, recurse,
                   ignore_mounts, delete_digest, delete_all_digests, fc_file,
                   exclude_list, pathname, lib_exclude, xattr_flags, todo,
                   current, stdout, stderr, envvars>>

\* ------------------------------------------------------- specifications

Next ==
    \/ NoArguments
    \/ SelinuxDisabled
    \/ SelinuxEnabled
    \/ OptV
    \/ OptN
    \/ OptR
    \/ OptM
    \/ OptD
    \/ OptDeleteAll
    \/ OptE
    \/ OptF
    \/ OptUnknown
    \/ NoPathname
    \/ GetoptEnd
    \/ SelabelOpenFail
    \/ SelabelOpen
    \/ DigestUnavailable
    \/ AllocFail
    \/ DisplayDigest
    \/ NoDisplayDigest
    \/ SetExcludeList
    \/ RestoreconXattrFail
    \/ RestoreconXattr
    \/ WalkUnreadable
    \/ WalkNoDigest
    \/ WalkReconcile
    \/ WalkEnd
    \/ PrintRecord
    \/ PrintDone

\* One invocation on any tree.
Spec == Init /\ [][Next]_vars

\* The directories a report shows under "Deleted Digest:".
ReportedDeleted(report) ==
    {report[i].directory[1] :
        i \in {j \in 1..Len(report) : report[j].label = "Deleted Digest: "}}

\* The command is given again on the tree as the last invocation left it.
NewRun ==
    /\ pc = "exit"
    /\ runs < MaxRuns
    /\ runs' = runs + 1
    /\ prev_deleted' = ReportedDeleted(stdout)
    /\ xattr0' = xattr
    /\ visited' = {}
    /\ removals' = [d \in Dirs |-> "none"]
    /\ pc' = "start"
    /\ status' = "running"
    /\ optind' = 1
    /\ opt' = "none"
    /\ optarg' = None
    /\ display_digest' = FALSE
    /\ no_comment' = TRUE
    /\ recurse' = {}
    /\ ignore_mounts' = {}
    /\ delete_digest' = {}
    /\ delete_all_digests' = {}
    /\ fc_file' = None
    /\ exclude_list' = <<>>
    /\ pathname' = None
    /\ hnd' = None
    /\ lib_exclude' = <<>>
    /\ xattr_flags' = {}
    /\ todo' = <<>>
    /\ xattr_list' = <<>>
    /\ current' = 0
    /\ stdout' = <<>>
    /\ stderr' = <<>>
    /\ UNCHANGED <<xattr, mounts>>

\* Invocations that use -r, -d and -D only and meet no setup error.
NextRerun ==
    \/ SelinuxEnabled
    \/ OptR
    \/ OptD
    \/ OptDeleteAll
    \/ GetoptEnd
    \/ SelabelOpen
    \/ NoDisplayDigest
    \/ SetExcludeList
    \/ RestoreconXattr
    \/ WalkUnreadable
    \/ WalkNoDigest
    \/ WalkReconcile
    \/ WalkEnd
    \/ PrintRecord
    \/ PrintDone
    \/ NewRun

\* Up to MaxRuns invocations in succession on the same tree.
SpecRerun == Init /\ [][NextRerun]_vars

\* ----------------------------------------------------------- properties

\* The text of the digest the run compares with: "ab09" for the default
\* specfile set, "10ff" for the one -f names.
CurrentText ==
    IF fc_file = None THEN <<"a", "b", "0", "9">> ELSE <<"1", "0", "f", "f">>

DeleteAllSet == delete_all_digests # {}

DeleteNonMatchingSet == delete_digest # {}

Recursive == recurse # {}

\* The call has returned records that main() has not freed yet.
Walking == pc \in {"walk", "print"}

RecordIndices == 1..Len(xattr_list)

RecordedDirs == {xattr_list[i].directory : i \in RecordIndices}

Results == {xattr_list[i].result : i \in RecordIndices}

\* The per-directory lines of the report, in order.
DirLines == SelectSeq(stdout, LAMBDA l : l.kind = "dir")

ReportedDirs == {DirLines[i].directory[1] : i \in 1..Len(DirLines)}

\* d carried a digest when the run began, and it differs from the current one.
StoredDiffers(d) == xattr0[d] # None /\ xattr0[d][1] # CurrentText

\* d carried a digest when the run began, and it equals the current one.
StoredMatches(d) == xattr0[d] # None /\ xattr0[d][1] = CurrentText

ExcludedPaths == {exclude_list[i] : i \in 1..Len(exclude_list)}

\* C1: the outcome recorded for a directory with a stored digest is decided
\* by whether the stored text equals the current digest's text, by -D and
\* -d, and by whether the removal succeeded: a removal is attempted iff -D,
\* or -d and the texts differ; with none attempted the outcome is MATCH or
\* NOMATCH, with a successful one DELETED_MATCH or DELETED_NOMATCH, with a
\* failed one ERROR.
OutcomeTable ==
    Walking =>
        \A i \in RecordIndices :
            LET r == xattr_list[i]
                equal == r.digest = CurrentText
                attempted == removals[r.directory] # "none"
                removed == removals[r.directory] = "ok"
            IN  /\ Some(r.digest) = xattr0[r.directory]
                /\ attempted <=> (DeleteAllSet \/ (DeleteNonMatchingSet /\ ~equal))
                /\ (~attempted /\ equal) => r.result = "MATCH"
                /\ (~attempted /\ ~equal) => r.result = "NOMATCH"
                /\ (attempted /\ removed /\ equal) => r.result = "DELETED_MATCH"
                /\ (attempted /\ removed /\ ~equal) => r.result = "DELETED_NOMATCH"
                /\ (attempted /\ ~removed) => r.result = "ERROR"
                /\ (~DeleteAllSet /\ ~DeleteNonMatchingSet)
                        => r.result \notin {"DELETED_MATCH", "DELETED_NOMATCH"}
                /\ ~DeleteAllSet => r.result # "DELETED_MATCH"

\* A recursive run with -d alone that recorded a match left in place, a
\* non-match deleted and a removal that failed.
OutcomeTableWitness ==
    /\ pc = "print"
    /\ DeleteNonMatchingSet
    /\ ~DeleteAllSet
    /\ {"MATCH", "DELETED_NOMATCH", "ERROR"} \subseteq Results

\* C2, as claimed: with -D and -d both given, every recorded directory ends
\* as DELETED_MATCH or DELETED_NOMATCH.
DeleteAllDominanceAsClaimed ==
    (Walking /\ DeleteAllSet /\ DeleteNonMatchingSet)
        => Results \subseteq {"DELETED_MATCH", "DELETED_NOMATCH"}

\* C2, amended: with -D and -d both given, every recorded directory ends as
\* DELETED_MATCH or DELETED_NOMATCH, or as ERROR when its removal failed;
\* never as plain MATCH or NOMATCH.
DeleteAllDominance ==
    (Walking /\ DeleteAllSet /\ DeleteNonMatchingSet) =>
        \A i \in RecordIndices :
            LET r == xattr_list[i]
            IN  /\ r.result \in {"DELETED_MATCH", "DELETED_NOMATCH", "ERROR"}
                /\ r.result = "ERROR" <=> removals[r.directory] = "failed"

\* -D and -d both given, a matching directory deleted all the same.
DeleteAllDominanceWitness ==
    /\ pc = "print"
    /\ DeleteAllSet
    /\ DeleteNonMatchingSet
    /\ "DELETED_MATCH" \in Results

\* C3: a directory whose digest attribute is absent has no record, no line
\* of the report and no removal attempted, whatever the flags; every record
\* holds the stored digest text of its directory.
NoAttributeSkipped ==
    /\ \A i \in RecordIndices :
            /\ xattr0[xattr_list[i].directory] # None
            /\ Some(xattr_list[i].digest) = xattr0[xattr_list[i].directory]
    /\ \A d \in Dirs :
            xattr0[d] = None
                => /\ d \notin RecordedDirs
                   /\ d \notin ReportedDirs
                   /\ removals[d] = "none"

\* A recursive walk with -D went through a directory without the attribute
\* and recorded another.
NoAttributeSkippedWitness ==
    /\ pc = "print"
    /\ current = 0
    /\ DeleteAllSet
    /\ \E d \in visited : xattr0[d] = None
    /\ xattr_list # <<>>

\* C4: a directory the invocation before reported under "Deleted Digest:"
\* has no record and no line in this one, whatever its flags (with -d in
\* both in particular).
RerunSkipsDeleted ==
    \A d \in prev_deleted : d \notin RecordedDirs /\ d \notin ReportedDirs

\* A second invocation with -d has walked over a directory the first one
\* reported deleted.
RerunSkipsDeletedWitness ==
    /\ runs = 2
    /\ pc = "print"
    /\ DeleteNonMatchingSet
    /\ visited \cap prev_deleted # {}

SetupErrors ==
    {"SELinux must be enabled to perform this operation.",
     "No pathname specified",
     "Error: Number of specfiles or specfile buffer caused an overflow.",
     "Error: selabel_open",
     "Error selinux_restorecon_xattr"}

StderrMsgs == {stderr[i].msg : i \in 1..Len(stderr)}

\* C6, as claimed: the run fails exactly when the policy subsystem is
\* unavailable, no pathname is given (no argument at all, or options and
\* nothing after them), the handle cannot be opened or the walk's call fails.
ExitStatusAsClaimed ==
    pc = "exit" =>
        (status = "failure" <=>
            \/ StderrMsgs \cap SetupErrors # {}
            \/ (UsageText \in StderrMsgs /\ optind = 1))

\* C6, amended: the run also fails when an option is not recognised, and,
\* with the digest display asked for, when the digest is not available or
\* its buffer cannot be allocated; every other run succeeds, a run that
\* reported "Error removing xattr" or dropped an exclude path included.
ExitStatus ==
    pc = "exit" =>
        /\ status \in {"success", "failure"}
        /\ status = "failure" <=>
            \/ StderrMsgs \cap SetupErrors # {}
            \/ UsageText \in StderrMsgs
            \/ (display_digest
                /\ StderrMsgs \cap {"Error: selabel_digest: Digest not available.",
                                    "Error allocating digest buffer"} # {})

\* A run that reported a failed removal and ended with success.
ExitStatusWitness ==
    /\ pc = "exit"
    /\ status = "success"
    /\ \E i \in 1..Len(DirLines) : DirLines[i].comment = " Error removing xattr\n"

\* C7: a run never writes a digest; an attribute is as the run found it or
\* absent, and absent only on a directory the walk went over, that carried
\* a digest, and that -D, or -d with differing digests, selected.  Without
\* -D and -d nothing changes; with -d alone a matching directory keeps its
\* attribute.
RunFrame ==
    /\ \A d \in Dirs :
            \/ xattr[d] = xattr0[d]
            \/ /\ xattr[d] = None
               /\ d \in visited
               /\ xattr0[d] # None
               /\ (DeleteAllSet \/ (DeleteNonMatchingSet /\ StoredDiffers(d)))
    /\ (~DeleteAllSet /\ ~DeleteNonMatchingSet) => xattr = xattr0
    /\ ~DeleteAllSet => \A d \in Dirs : StoredMatches(d) => xattr[d] = xattr0[d]

\* A run with -d alone that removed one attribute and walked over a
\* matching directory.
RunFrameWitness ==
    /\ pc = "print"
    /\ DeleteNonMatchingSet
    /\ ~DeleteAllSet
    /\ xattr # xattr0
    /\ \E d \in visited : StoredMatches(d)

\* C8: without -r the walk yields the pathname alone: nothing else is walked
\* over, recorded, reported or stripped of its attribute, whatever the
\* deletion flags.
ShallowMode ==
    (~Recursive /\ pathname # None) =>
        /\ visited \subseteq {pathname[1]}
        /\ pc = "print" => visited = {pathname[1]}
        /\ RecordedDirs \subseteq {pathname[1]}
        /\ ReportedDirs \subseteq {pathname[1]}
        /\ \A d \in Dirs \ {pathname[1]} :
                removals[d] = "none" /\ xattr[d] = xattr0[d]

\* A run on /s with -D and no -r removed the attribute of /s and left the
\* one of /s/m.
ShallowModeWitness ==
    /\ pc = "print"
    /\ ~Recursive
    /\ DeleteAllSet
    /\ pathname = Some(SRV)
    /\ xattr0[SRV] # None
    /\ xattr[SRV] = None
    /\ xattr[MNT] # None

\* C9: each -e adds its path to the exclude list iff lstat() succeeds or
\* fails with EACCES; any other failure is reported and the path left out;
\* either way the options go on being read, and nothing else touches the
\* list.
ExcludeValidation ==
    [][/\ (opt' = "e" /\ optind' = optind + 1) =>
            LET p == optarg'[1]
            IN  /\ pc' = "getopt"
                /\ status' = "running"
                /\ IF StatOf(p) \in {"ok", "EACCES"}
                   THEN /\ exclude_list' = Append(exclude_list, p)
                        /\ stderr' = stderr
                   ELSE /\ exclude_list' = exclude_list
                        /\ stderr' = Append(stderr,
                                Msg("Can't stat exclude path - ignoring.", Some(p)))
       /\ (exclude_list' # exclude_list) => (opt' = "e" /\ optind' = optind + 1)
      ]_vars

\* -e /q was reported and dropped, the -e /s/m after it was added, and the
\* run went on to its walk.
ExcludeValidationWitness ==
    /\ pc = "print"
    /\ exclude_list = <<MNT>>
    /\ optarg = Some(MNT)
    /\ stderr = <<Msg("Can't stat exclude path - ignoring.", Some(GONE))>>

\* C10: the report holds one line for each record, in the list's order,
\* with the record's directory and digest; "Deleted Digest: " labels the
\* DELETED_ records and "Digest: " the others; an ERROR line ends "Error
\* removing xattr", any other ends " Match" or " No Match" unless -n was
\* given (no_comment is then false); with -v the digest header, with the
\* specfiles in their order, comes once and before every such line, and
\* without -v it does not come.
ReportRendering ==
    pc = "print" =>
        LET specs == IF fc_file = None THEN DefaultSpecfiles ELSE <<AltSpecfile>>
            hdr == IF display_digest THEN Len(specs) + 3 ELSE 0
        IN  /\ Len(DirLines) = (IF current = 0 THEN Len(xattr_list) ELSE current - 1)
            /\ Len(stdout) = hdr + Len(DirLines)
            /\ \A i \in 1..Len(stdout) : stdout[i].kind = "dir" <=> i > hdr
            /\ display_digest =>
                /\ stdout[1].kind = "sha1"
                /\ stdout[1].label = "specfiles SHA1 digest: "
                /\ stdout[1].digest = CurrentText
                /\ stdout[2].kind = "calc"
                /\ \A k \in 1..Len(specs) :
                        /\ stdout[2 + k].kind = "specfile"
                        /\ stdout[2 + k].directory = Some(specs[k])
                /\ stdout[hdr].kind = "blank"
            /\ \A i \in 1..Len(DirLines) :
                LET l == DirLines[i]
                    r == xattr_list[i]
                IN  /\ l.directory = Some(r.directory)
                    /\ l.digest = r.digest
                    /\ l.label = (IF r.result \in {"DELETED_MATCH", "DELETED_NOMATCH"}
                                  THEN "Deleted Digest: " ELSE "Digest: ")
                    /\ r.result = "ERROR" => l.comment = " Error removing xattr\n"
                    /\ (r.result # "ERROR" /\ ~no_comment) => l.comment = "\n"
                    /\ (r.result \in {"MATCH", "DELETED_MATCH"} /\ no_comment)
                            => l.comment = " Match\n"
                    /\ (r.result \in {"NOMATCH", "DELETED_NOMATCH"} /\ no_comment)
                            => l.comment = " No Match\n"

\* A report with the header and, -n given, a bare line.
ReportRenderingWitness ==
    /\ pc = "print"
    /\ current = 0
    /\ display_digest
    /\ ~no_comment
    /\ \E i \in 1..Len(DirLines) : DirLines[i].comment = "\n"

====
